---- MODULE Spec2Model ----
(***************************************************************************)
(* Model of cancela_control.ino: a servo gate driven by the serial         *)
(* commands ABRIR and FECHAR.  The file holds two sketches: the calibrated *)
(* one (lines 1-51) and the one with a 1 second delay (lines 52-103).      *)
(* Strings are sequences of one-character strings.                         *)
(***************************************************************************)
EXTENDS Integers, Sequences, FiniteSets, TLC

VARIABLES variant, term, pc, rx, acc, angle, trace, hist, sent, late, plan, boots

vars == <<variant, term, pc, rx, acc, angle, trace, hist, sent, late, plan, boots>>

\* ---------------------------------------------------------------- bounds
MaxChunks == 2
MaxBoots == 1

\* ------------------------------------------------------ program constants
closedAngle == 0
openAngle == 90

\* angle of a servo that was never written
NoAngle == -1

NL == "\n"

ABRIR == <<"A", "B", "R", "I", "R">>
FECHAR == <<"F", "E", "C", "H", "A", "R">>

InitMsg == "Cancela inicializada: FECHADA"
EchoMsg == "Comando recebido: "

Variants == {"calibrated", "delay"}

\* The calibrated sketch passes the character '\n' to readStringUntil.
\* The delay sketch passes the string literal "\n": the char parameter
\* receives the low byte of the literal's address, a value fixed by the
\* build: the line feed by chance, a byte that occurs in the commands,
\* or a byte that never occurs in the input.
BuildBytes == {NL, "R", "#"}

Terminators(v) == IF v = "calibrated" THEN {NL} ELSE BuildBytes

\* ------------------------------------------------------------- messages
\* the line printed right after a servo write
StatusMsg(v, a) ==
  IF v = "delay"
    THEN IF a = openAngle THEN "Cancela: ABRINDO" ELSE "Cancela: FECHANDO"
    ELSE IF a = openAngle THEN "Cancela: ABERTA" ELSE "Cancela: FECHADA"

\* the accented letter of the source is written without its accent
InvalidMsg(v) ==
  IF v = "delay" THEN "Comando invalido. Use ABRIR ou FECHAR."
  ELSE "Comando invalido."

\* a final line copied from the ABRIR branch into the FECHAR branch
FinalMsgCopied(a) == "Cancela: ABERTA"

\* the line printed after delay(1000)
FinalMsg(a) == IF a = openAngle THEN "Cancela: ABERTA" ELSE "Cancela: FECHADA"

\* ---------------------------------------------------------------- events
Wr(a) == [kind |-> "write", msg |-> "", arg |-> <<>>, val |-> a]
Pr(m, s) == [kind |-> "print", msg |-> m, arg |-> s, val |-> 0]
Dl(ms) == [kind |-> "delay", msg |-> "", arg |-> <<>>, val |-> ms]

\* ------------------------------------------------------- pure functions
\* Servo::write clamps its argument to 0..180 degrees
ServoWrite(value) ==
  IF value < 0 THEN 0 ELSE IF value > 180 THEN 180 ELSE value

\* an isspace that does not know the carriage return
IsSpaceNoCR(c) == c \in {" ", "\t", "\n", "\f"}

\* isspace, as used by String::trim
IsSpace(c) == c \in {" ", "\t", "\n", "\r", "\f"}

\* String::trim: drop the whitespace at both ends
Trim(s) ==
  LET keep == {i \in 1..Len(s) : ~IsSpace(s[i])}
      first == CHOOSE i \in keep : \A j \in keep : i <= j
      last == CHOOSE i \in keep : \A j \in keep : j <= i
  IN IF keep = {} THEN <<>> ELSE SubSeq(s, first, last)

\* position of the first terminator in the buffered bytes, 0 if none
FindTerm(s, t) ==
  LET hits == {i \in 1..Len(s) : s[i] = t}
  IN IF hits = {} THEN 0 ELSE CHOOSE i \in hits : \A j \in hits : i <= j

\* dispatchers with a slip in the if-chain
TargetSwapped(cmd) ==
  IF cmd = ABRIR THEN closedAngle
  ELSE IF cmd = FECHAR THEN openAngle
  ELSE NoAngle

TargetFecharIgnored(cmd) == IF cmd = ABRIR THEN openAngle ELSE NoAngle

TargetDefaultClose(cmd) == IF cmd = ABRIR THEN openAngle ELSE closedAngle

TargetInvalidOpens(cmd) == IF cmd = FECHAR THEN closedAngle ELSE openAngle

TargetToggle(cmd) ==
  IF cmd = ABRIR \/ cmd = FECHAR
    THEN IF angle = openAngle THEN closedAngle ELSE openAngle
    ELSE NoAngle

\* a dispatcher that skips the write when the gate is already there
TargetGuarded(cmd) ==
  IF cmd = ABRIR /\ angle # openAngle THEN openAngle
  ELSE IF cmd = FECHAR /\ angle # closedAngle THEN closedAngle
  ELSE NoAngle

\* a delay sketch whose copy of the if-chain has the angles exchanged
TargetDelaySwapped(cmd) ==
  IF cmd = ABRIR THEN (IF variant = "delay" THEN closedAngle ELSE openAngle)
  ELSE IF cmd = FECHAR THEN (IF variant = "delay" THEN openAngle ELSE closedAngle)
  ELSE NoAngle

\* the angle the dispatcher writes for a command, NoAngle for no write
Target(cmd) ==
  IF cmd = ABRIR THEN openAngle
  ELSE IF cmd = FECHAR THEN closedAngle
  ELSE NoAngle

\* ------------------------------------------------------ the serial peer
Chunks ==
  { ABRIR \o <<NL>>,
    FECHAR \o <<NL>>,
    <<"x", "y", "z", NL>>,
    ABRIR \o <<"\r", NL>>,
    <<" ", " ">> \o ABRIR \o <<" ", " ", NL>>,
    <<"\t">> \o FECHAR \o <<"\r", NL>>,
    <<"a", "b", "r", "i", "r", NL>>,
    ABRIR \o <<" ", "X", NL>>,
    <<"A", "B", " ", "R", "I", "R", NL>>,
    <<NL>>,
    <<"A", "B", "R">>,
    <<"I", "R", NL>> }

Scenario ==
  << FECHAR \o <<NL>>, ABRIR \o <<NL>>, <<"x", "y", "z", NL>>, FECHAR \o <<NL>> >>

\* ------------------------------------------------------------------ Init
Init ==
  /\ variant \in Variants
  /\ term \in Terminators(variant)
  /\ plan \in {"any", "scenario"}
  /\ pc = "boot"
  /\ rx = <<>>
  /\ acc = <<>>
  /\ angle = NoAngle
  /\ trace = <<>>
  /\ hist = <<>>
  /\ sent = <<>>
  /\ late = <<>>
  /\ boots = 0

\* --------------------------------------------------------------- actions
\* a setup that announces before it writes
SetupMsgFirst ==
  /\ pc = "boot"
  /\ angle' = ServoWrite(closedAngle)
  /\ trace' = trace \o <<Pr(InitMsg, <<>>), Wr(ServoWrite(closedAngle))>>
  /\ pc' = "top"
  /\ UNCHANGED <<variant, term, rx, acc, hist, sent, late, plan, boots>>

\* a setup that forgets to close the gate
SetupNoWrite ==
  /\ pc = "boot"
  /\ trace' = trace \o <<Pr(InitMsg, <<>>)>>
  /\ pc' = "top"
  /\ UNCHANGED <<variant, term, rx, acc, angle, hist, sent, late, plan, boots>>

\* setup(): attach, Serial.begin, write closedAngle, announce
Setup ==
  /\ pc = "boot"
  /\ angle' = ServoWrite(closedAngle)
  /\ trace' = trace \o <<Wr(ServoWrite(closedAngle)), Pr(InitMsg, <<>>)>>
  /\ pc' = "top"
  /\ UNCHANGED <<variant, term, rx, acc, hist, sent, late, plan, boots>>

\* a loop that reads without checking Serial.available()
LoopIdleBlocking ==
  /\ pc = "top"
  /\ Len(rx) = 0
  /\ pc' = "read"
  /\ acc' = <<>>
  /\ UNCHANGED <<variant, term, rx, angle, trace, hist, sent, late, plan, boots>>

\* loop() with Serial.available() == 0: falls through and returns
LoopIdle ==
  /\ pc = "top"
  /\ Len(rx) = 0
  /\ pc' = "ret"
  /\ UNCHANGED <<variant, term, rx, acc, angle, trace, hist, sent, late, plan, boots>>

\* loop() with Serial.available() > 0: enters readStringUntil
LoopBegin ==
  /\ pc = "top"
  /\ Len(rx) > 0
  /\ pc' = "read"
  /\ acc' = <<>>
  /\ UNCHANGED <<variant, term, rx, angle, trace, hist, sent, late, plan, boots>>

\* where loop() goes after the dispatch: into delay(1000) or to its end
AfterDispatch(v, t) == IF v = "delay" /\ t # NoAngle THEN "delay" ELSE "ret"

\* the rest of loop() once readStringUntil has returned raw
Process(raw) ==
  LET command == Trim(raw)
      t == Target(command)
      echo == Pr(EchoMsg, command)
  IN /\ acc' = <<>>
     /\ IF t # NoAngle
          THEN /\ angle' = ServoWrite(t)
               /\ trace' = trace \o <<echo, Wr(ServoWrite(t)),
                                      Pr(StatusMsg(variant, t), <<>>)>>
          ELSE /\ angle' = angle
               /\ trace' = trace \o <<echo, Pr(InvalidMsg(variant), <<>>)>>
     /\ hist' = Append(hist, [raw |-> raw, cmd |-> command, at |-> Len(trace),
                              before |-> angle, after |-> angle'])
     /\ pc' = AfterDispatch(variant, t)

\* readStringUntil takes the buffered bytes: up to the terminator, which it
\* consumes and drops, or all of them when the terminator is not there yet
ReadBytes ==
  /\ pc = "read"
  /\ Len(rx) > 0
  /\ LET k == FindTerm(rx, term)
     IN IF k > 0
          THEN /\ rx' = SubSeq(rx, k + 1, Len(rx))
               /\ Process(acc \o SubSeq(rx, 1, k - 1))
          ELSE /\ rx' = <<>>
               /\ acc' = acc \o rx
               /\ UNCHANGED <<pc, angle, trace, hist>>
  /\ UNCHANGED <<variant, term, sent, late, plan, boots>>

\* timedRead gives up after a second of silence: readStringUntil returns
\* what it has
ReadTimeout ==
  /\ pc = "read"
  /\ Len(rx) = 0
  /\ Process(acc)
  /\ UNCHANGED <<variant, term, rx, sent, late, plan, boots>>

\* a sketch that prints the final status line before it pauses
DelayEndEarly ==
  /\ pc = "delay"
  /\ trace' = trace \o <<Pr(FinalMsg(angle), <<>>), Dl(1000)>>
  /\ pc' = "ret"
  /\ UNCHANGED <<variant, term, rx, acc, angle, hist, sent, late, plan, boots>>

\* delay(1000) ends, the final status line is printed
DelayEnd ==
  /\ pc = "delay"
  /\ trace' = trace \o <<Dl(1000), Pr(FinalMsg(angle), <<>>)>>
  /\ pc' = "ret"
  /\ UNCHANGED <<variant, term, rx, acc, angle, hist, sent, late, plan, boots>>

\* loop() returns and is called again
LoopReturn ==
  /\ pc = "ret"
  /\ pc' = "top"
  /\ UNCHANGED <<variant, term, rx, acc, angle, trace, hist, sent, late, plan, boots>>

\* the peer sends a burst of bytes; late records whether it arrived while
\* delay(1000) was running
HostSend ==
  /\ pc # "boot"
  /\ plan = "any"
  /\ Len(sent) < MaxChunks
  /\ \E c \in Chunks :
       /\ rx' = rx \o c
       /\ sent' = Append(sent, c)
  /\ late' = Append(late, pc = "delay")
  /\ UNCHANGED <<variant, term, pc, acc, angle, trace, hist, plan, boots>>

\* the peer plays the scenario, line by line
HostScenario ==
  /\ pc # "boot"
  /\ plan = "scenario"
  /\ Len(sent) < Len(Scenario)
  /\ rx' = rx \o Scenario[Len(sent) + 1]
  /\ sent' = Append(sent, Scenario[Len(sent) + 1])
  /\ late' = Append(late, pc = "delay")
  /\ UNCHANGED <<variant, term, pc, acc, angle, trace, hist, plan, boots>>

\* power is cycled: nothing survives but the build
PowerCycle ==
  /\ pc # "boot"
  /\ boots < MaxBoots
  /\ boots' = boots + 1
  /\ pc' = "boot"
  /\ rx' = <<>>
  /\ acc' = <<>>
  /\ angle' = NoAngle
  /\ trace' = <<>>
  /\ hist' = <<>>
  /\ sent' = <<>>
  /\ late' = <<>>
  /\ UNCHANGED <<variant, term, plan>>

Next ==
  \/ Setup
  \/ LoopIdle
  \/ LoopBegin
  \/ ReadBytes
  \/ ReadTimeout
  \/ DelayEnd
  \/ LoopReturn
  \/ HostSend
  \/ HostScenario
  \/ PowerCycle

Spec == Init /\ [][Next]_vars

TypeOK ==
  /\ variant \in Variants
  /\ term \in Terminators(variant)
  /\ pc \in {"boot", "top", "read", "delay", "ret"}
  /\ angle \in {NoAngle} \cup 0..180
  /\ boots \in 0..MaxBoots

\* ---------------------------------------------------- observation helpers
\* the gate state that an angle stands for
Gate(a) == IF a = 90 THEN "Open" ELSE IF a = 0 THEN "Closed" ELSE "None"

\* the events of the i-th dispatched command: from its echo up to the echo
\* of the next command
SegEnd(i) == IF i < Len(hist) THEN hist[i + 1].at ELSE Len(trace)
Seg(i) == SubSeq(trace, hist[i].at + 1, SegEnd(i))

IsWrite(e) == e.kind = "write"
IsInvalid(e) ==
  e.kind = "print" /\ e.msg \in {InvalidMsg("calibrated"), InvalidMsg("delay")}

Count(s, T(_)) == Cardinality({k \in 1..Len(s) : T(s[k])})

Cmds == [i \in 1..Len(hist) |-> hist[i].cmd]

\* s is lit with nothing but whitespace around it
Blank(c) == c = " " \/ c = "\t" \/ c = "\r" \/ c = "\n" \/ c = "\f"
Padded(s, lit) ==
  \E i \in 0..Len(s) :
    /\ i + Len(lit) <= Len(s)
    /\ SubSeq(s, i + 1, i + Len(lit)) = lit
    /\ \A k \in 1..Len(s) : (k <= i \/ k > i + Len(lit)) => Blank(s[k])

\* a chunk that is exactly one line: its only line feed is its last byte
IsLine(c) ==
  /\ Len(c) > 0
  /\ c[Len(c)] = NL
  /\ \A k \in 1..(Len(c) - 1) : c[k] # NL

\* ------------------------------------------------------------------ C1
\* C1: every dispatched command whose trimmed text is ABRIR writes 90 to the
\* servo and leaves the gate Open, whatever the angle was before, in both
\* sketches.
C1_AbrirOpens ==
  \A i \in 1..Len(hist) :
    hist[i].cmd = ABRIR =>
      /\ hist[i].after = 90
      /\ Gate(hist[i].after) = "Open"
      /\ Count(Seg(i), IsWrite) = 1
      /\ trace[hist[i].at + 2] = Wr(90)
      /\ (i = Len(hist) => angle = 90)

\* ABRIR was dispatched once with the gate Closed and once with it Open
C1_Witness ==
  \E i, j \in 1..Len(hist) :
    /\ hist[i].cmd = ABRIR /\ hist[i].before = 0
    /\ hist[j].cmd = ABRIR /\ hist[j].before = 90

\* ------------------------------------------------------------------ C2
\* C2: every dispatched command whose trimmed text is FECHAR writes 0 to the
\* servo and leaves the gate Closed, whatever the angle was before, in both
\* sketches.
C2_FecharCloses ==
  \A i \in 1..Len(hist) :
    hist[i].cmd = FECHAR =>
      /\ hist[i].after = 0
      /\ Gate(hist[i].after) = "Closed"
      /\ Count(Seg(i), IsWrite) = 1
      /\ trace[hist[i].at + 2] = Wr(0)
      /\ (i = Len(hist) => angle = 0)

\* FECHAR was dispatched once with the gate Closed and once with it Open
C2_Witness ==
  \E i, j \in 1..Len(hist) :
    /\ hist[i].cmd = FECHAR /\ hist[i].before = 0
    /\ hist[j].cmd = FECHAR /\ hist[j].before = 90

\* ------------------------------------------------------------------ C3
\* C3: a dispatched command that is neither ABRIR nor FECHAR, the empty
\* string included, leaves the angle and the gate state as they were, issues
\* no servo write and emits exactly one invalid-command message.
C3_InvalidIgnored ==
  \A i \in 1..Len(hist) :
    (hist[i].cmd # ABRIR /\ hist[i].cmd # FECHAR) =>
      /\ hist[i].after = hist[i].before
      /\ Count(Seg(i), IsWrite) = 0
      /\ Count(Seg(i), IsInvalid) = 1
      /\ (i = Len(hist) => angle = hist[i].before)

\* the empty command was dispatched with the gate Open
C3_Witness ==
  \E i \in 1..Len(hist) :
    /\ hist[i].cmd = <<>>
    /\ hist[i].before = 90
    /\ hist[i].after = 90

\* ------------------------------------------------------------------ C4
\* C4: after setup() and before any command is processed the angle is 0, the
\* gate is Closed, and the servo write to closedAngle followed by the
\* initialization message are all that happened; on every initialization.
C4_InitClosed ==
  (pc # "boot" /\ hist = <<>>) =>
    /\ angle = 0
    /\ Gate(angle) = "Closed"
    /\ trace = <<Wr(0), Pr("Cancela inicializada: FECHADA", <<>>)>>

\* the second initialization has completed
C4_Witness == boots = 1 /\ pc = "top" /\ hist = <<>> /\ angle = 0

\* ------------------------------------------------------------------ C5
\* C5: when the input consisted of N lines, each ended by a line feed, and
\* all of it has been consumed, exactly N commands were dispatched, one per
\* line and in arrival order, each read up to its line feed and no further;
\* in both sketches.
C5_OneCommandPerLine ==
  ( /\ pc \in {"top", "ret"}
    /\ rx = <<>>
    /\ \A k \in 1..Len(sent) : IsLine(sent[k]) )
  => /\ Len(hist) = Len(sent)
     /\ \A k \in 1..Len(hist) :
          hist[k].cmd = Trim(SubSeq(sent[k], 1, Len(sent[k]) - 1))

\* ------------------------------------------------------------------ C6
\* C6: a string read from the serial line opens the gate exactly when it is
\* the literal ABRIR with nothing but whitespace around it, and closes it
\* exactly when it is FECHAR so padded; matching is case-sensitive, and any
\* other string is reported as invalid and does not move the gate.
C6_ExactMatch ==
  \A i \in 1..Len(hist) :
    /\ (Count(Seg(i), LAMBDA e : e = Wr(90)) = 1) <=> Padded(hist[i].raw, ABRIR)
    /\ (Count(Seg(i), LAMBDA e : e = Wr(0)) = 1) <=> Padded(hist[i].raw, FECHAR)
    /\ (~Padded(hist[i].raw, ABRIR) /\ ~Padded(hist[i].raw, FECHAR)) =>
         /\ Count(Seg(i), IsInvalid) = 1
         /\ Count(Seg(i), IsWrite) = 0
         /\ hist[i].after = hist[i].before

\* "  ABRIR  " opened the gate, then "abrir" was reported and left it open
C6_Witness ==
  /\ Len(hist) = 2
  /\ hist[1].raw = <<" ", " ">> \o ABRIR \o <<" ", " ">>
  /\ hist[1].after = 90
  /\ hist[2].raw = <<"a", "b", "r", "i", "r">>
  /\ hist[2].after = 90
  /\ Count(Seg(2), IsInvalid) = 1

\* ------------------------------------------------------------------ C7
\* C7: when the commands dispatched since initialization are FECHAR, ABRIR,
\* xyz, FECHAR, the gate states after them are Closed, Open, Open, Closed,
\* and exactly one invalid-command message was emitted, for the third; the
\* fourth command is processed normally.
ScenarioCmds == <<FECHAR, ABRIR, <<"x", "y", "z">>, FECHAR>>
ScenarioGates == <<"Closed", "Open", "Open", "Closed">>

C7_Scenario ==
  (Len(hist) <= 4 /\ Cmds = SubSeq(ScenarioCmds, 1, Len(hist))) =>
    /\ \A i \in 1..Len(hist) : Gate(hist[i].after) = ScenarioGates[i]
    /\ Count(trace, IsInvalid) = (IF Len(hist) >= 3 THEN 1 ELSE 0)
    /\ Len(hist) >= 3 => Count(Seg(3), IsInvalid) = 1
    /\ Len(hist) = 4 => Count(Seg(4), IsWrite) = 1

\* the whole scenario has been processed
C7_Witness ==
  /\ Cmds = ScenarioCmds
  /\ pc = "ret"
  /\ angle = 0
  /\ Count(trace, IsInvalid) = 1

\* ------------------------------------------------------------------ C8
\* C8: a valid command dispatched twice in a row leaves the gate in the same
\* state after the second dispatch as after the first (Open for ABRIR,
\* Closed for FECHAR), and neither dispatch emits an invalid-command message.
C8_Idempotent ==
  \A i \in 2..Len(hist) :
    (hist[i].cmd = hist[i - 1].cmd /\ hist[i].cmd \in {ABRIR, FECHAR}) =>
      /\ hist[i - 1].after = (IF hist[i].cmd = ABRIR THEN 90 ELSE 0)
      /\ hist[i].before = hist[i - 1].after
      /\ hist[i].after = hist[i - 1].after
      /\ Count(Seg(i - 1), IsInvalid) = 0
      /\ Count(Seg(i), IsInvalid) = 0

\* ABRIR was dispatched twice in a row
C8_Witness ==
  \E i \in 2..Len(hist) : hist[i].cmd = ABRIR /\ hist[i - 1].cmd = ABRIR

\* ------------------------------------------------------------------ C9
\* C9: in every state after setup() the last angle written to the servo is 0
\* or 90, so the gate is Closed or Open, and no other angle was ever written.
C9_TwoStates ==
  pc # "boot" =>
    /\ angle \in {0, 90}
    /\ Gate(angle) \in {"Closed", "Open"}
    /\ \A k \in 1..Len(trace) : IsWrite(trace[k]) => trace[k].val \in {0, 90}

\* a valid command and then an invalid one have been dispatched
C9_Witness ==
  /\ pc = "top"
  /\ \E i, j \in 1..Len(hist) :
       /\ i < j
       /\ hist[i].cmd = ABRIR
       /\ Target(hist[j].cmd) = NoAngle

\* ------------------------------------------------------------------ C10
\* C10: a pass of loop() that finds no input available does nothing: it
\* consumes no input, writes nothing to the servo, prints nothing and leaves
\* the gate state as it was; loop() just returns.
C10_IdlePass ==
  [][(pc = "top" /\ Len(rx) = 0 /\ pc' \notin {"top", "boot"}) =>
       (pc' = "ret" /\ UNCHANGED <<rx, acc, angle, trace, hist>>)]_vars

\* loop() has returned from a pass without input: nothing was ever read
C10_Witness ==
  /\ pc = "ret"
  /\ rx = <<>>
  /\ hist = <<>>
  /\ Len(trace) = 2
\* ------------------------------------------------------------------ C11
\* C11: in the delay sketch a complete line that arrives while delay(1000)
\* is running is not lost: once the loop has consumed all input, that line
\* has been dispatched as a command of its own.
C11_LateLineDispatched ==
  ( /\ variant = "delay"
    /\ pc \in {"top", "ret"}
    /\ rx = <<>>
    /\ \A k \in 1..Len(sent) : IsLine(sent[k]) )
  => \A k \in 1..Len(sent) :
       late[k] =>
         /\ Len(hist) >= k
         /\ hist[k].cmd = Trim(SubSeq(sent[k], 1, Len(sent[k]) - 1))
\* ------------------------------------------------------------------ C12
\* C12: the output of every dispatched command starts with the echo of the
\* trimmed command, before any servo write or status line.  The calibrated
\* sketch then prints exactly one line (ABERTA, after the write to 90;
\* FECHADA, after the write to 0; or the invalid-command line).  The delay
\* sketch, for a valid command, writes the servo, prints the in-progress
\* line, pauses one second and prints the final line, and nothing of another
\* command comes in between.
SegDone(i) == i < Len(hist) \/ pc # "delay"

MoveOutput(cmd, a, during, final) ==
  << Pr("Comando recebido: ", cmd), Wr(a), Pr(during, <<>>),
     Dl(1000), Pr(final, <<>>) >>

ExpectedOutput(i) ==
  LET cmd == hist[i].cmd
      echo == Pr("Comando recebido: ", cmd)
      whole ==
        IF cmd = ABRIR
          THEN MoveOutput(cmd, 90, "Cancela: ABRINDO", "Cancela: ABERTA")
          ELSE MoveOutput(cmd, 0, "Cancela: FECHANDO", "Cancela: FECHADA")
  IN IF variant = "calibrated"
       THEN IF cmd = ABRIR THEN <<echo, Wr(90), Pr("Cancela: ABERTA", <<>>)>>
            ELSE IF cmd = FECHAR THEN <<echo, Wr(0), Pr("Cancela: FECHADA", <<>>)>>
            ELSE <<echo, Pr("Comando invalido.", <<>>)>>
       ELSE IF cmd = ABRIR \/ cmd = FECHAR
              THEN IF SegDone(i) THEN whole ELSE SubSeq(whole, 1, 3)
              ELSE <<echo, Pr("Comando invalido. Use ABRIR ou FECHAR.", <<>>)>>

C12_OutputOrder ==
  \A i \in 1..Len(hist) :
    /\ hist[i].cmd = Trim(hist[i].raw)
    /\ Seg(i) = ExpectedOutput(i)

\* the delay sketch has finished an ABRIR and then a FECHAR
C12_Witness ==
  /\ variant = "delay"
  /\ pc = "ret"
  /\ Len(hist) = 2
  /\ hist[1].cmd = ABRIR
  /\ hist[2].cmd = FECHAR
  /\ Len(Seg(1)) = 5
  /\ Len(Seg(2)) = 5
\* ------------------------------------------------------------------ C13
\* C13: every dispatched ABRIR issues exactly one servo write, of 90, and
\* every dispatched FECHAR exactly one, of 0, also when the gate is already
\* in the requested state; so the servo writes after the one of setup() are
\* as many as the valid commands dispatched.
ValidCmds == {i \in 1..Len(hist) : hist[i].cmd = ABRIR \/ hist[i].cmd = FECHAR}

C13_OneWritePerValid ==
  pc # "boot" =>
    /\ Count(trace, IsWrite) = 1 + Cardinality(ValidCmds)
    /\ \A i \in ValidCmds :
         /\ Count(Seg(i), IsWrite) = 1
         /\ Count(Seg(i), LAMBDA e : e = Wr(IF hist[i].cmd = ABRIR THEN 90 ELSE 0)) = 1

\* ABRIR was dispatched with the gate already Open, and the write was issued
C13_Witness ==
  \E i \in 1..Len(hist) :
    /\ hist[i].cmd = ABRIR
    /\ hist[i].before = 90
    /\ Count(Seg(i), IsWrite) = 1
    /\ Count(trace, IsWrite) = 3
\* ------------------------------------------------------------------ C14
\* C14: whenever loop() is about to start or has just returned, the most
\* recent final status line (the initialization line, FECHADA or ABERTA)
\* names Closed exactly when the last servo write was 0 and Open exactly
\* when it was 90; an invalid command leaves the most recent one as it was.
ClosedLines == {"Cancela inicializada: FECHADA", "Cancela: FECHADA"}
OpenLines == {"Cancela: ABERTA"}

IsFinalLine(e) == e.kind = "print" /\ e.msg \in ClosedLines \cup OpenLines

\* position of the most recent final status line among the first n events
LastFinal(n) ==
  LET ks == {k \in 1..n : IsFinalLine(trace[k])}
  IN IF ks = {} THEN 0 ELSE CHOOSE k \in ks : \A j \in ks : j <= k

Reported ==
  LET k == LastFinal(Len(trace))
  IN IF k = 0 THEN "None"
     ELSE IF trace[k].msg \in OpenLines THEN "Open" ELSE "Closed"

C14_ReportAgrees ==
  pc \in {"top", "ret"} =>
    /\ Reported = "Closed" <=> angle = 0
    /\ Reported = "Open" <=> angle = 90
    /\ \A i \in 1..Len(hist) :
         (hist[i].cmd # ABRIR /\ hist[i].cmd # FECHAR) =>
           LastFinal(SegEnd(i)) = LastFinal(hist[i].at)

\* the delay sketch reported ABERTA and then an invalid command came
C14_Witness ==
  /\ variant = "delay"
  /\ pc = "top"
  /\ angle = 90
  /\ Reported = "Open"
  /\ Len(hist) = 2
  /\ Target(hist[2].cmd) = NoAngle
\* ------------------------------------------------------------------ C15
\* C15: the servo writes and the gate states are one and the same function
\* of the dispatched commands in both sketches: the write of setup(), then
\* 90 for each ABRIR and 0 for each FECHAR, nothing for anything else.  The
\* function does not look at the sketch, so two runs fed the same commands,
\* one of each sketch, write the same angles and pass the same gate states.
RECURSIVE Moves(_)
Moves(cmds) ==
  IF cmds = <<>> THEN <<>>
  ELSE LET rest == Moves(SubSeq(cmds, 1, Len(cmds) - 1))
           c == cmds[Len(cmds)]
       IN IF c = ABRIR THEN Append(rest, 90)
          ELSE IF c = FECHAR THEN Append(rest, 0)
          ELSE rest

WriteVals ==
  LET ws == SelectSeq(trace, IsWrite)
  IN [k \in 1..Len(ws) |-> ws[k].val]

AngleAfter(cmds) ==
  LET m == <<0>> \o Moves(cmds) IN m[Len(m)]

C15_SameActuator ==
  pc # "boot" =>
    /\ WriteVals = <<0>> \o Moves(Cmds)
    /\ \A i \in 1..Len(hist) :
         /\ hist[i].after = AngleAfter(SubSeq(Cmds, 1, i))
         /\ Gate(hist[i].after) = Gate(AngleAfter(SubSeq(Cmds, 1, i)))

\* the delay sketch has processed the scenario with the writes 0, 0, 90, 0
C15_Witness ==
  /\ variant = "delay"
  /\ pc = "top"
  /\ Cmds = ScenarioCmds
  /\ WriteVals = <<0, 0, 90, 0>>
  /\ Count(trace, LAMBDA e : e.kind = "delay") = 3
\* ------------------------------------------------------------------ C16
\* C16: a command is dispatched only for a complete line: the strings
\* dispatched so far, each followed by its line feed, and the bytes not yet
\* dispatched make up exactly the bytes received, and no dispatched string
\* contains a line feed; so "ABR" followed by "IR\n" is dispatched once, as
\* ABRIR.
RECURSIVE Flat(_)
Flat(cs) ==
  IF cs = <<>> THEN <<>>
  ELSE Flat(SubSeq(cs, 1, Len(cs) - 1)) \o cs[Len(cs)]

DispatchedLines == Flat([i \in 1..Len(hist) |-> Append(hist[i].raw, NL)])

C16_OnlyCompleteLines ==
  pc # "boot" =>
    /\ \A i \in 1..Len(hist) : \A k \in 1..Len(hist[i].raw) : hist[i].raw[k] # NL
    /\ Flat(sent) = DispatchedLines \o acc \o rx
    /\ ( /\ sent = << <<"A", "B", "R">>, <<"I", "R", NL>> >>
         /\ rx = <<>>
         /\ pc \in {"top", "ret"} ) => Cmds = <<ABRIR>>
====
